---- MODULE Spec2Model ----
(***************************************************************************)
(* Model of balancedpath/smart_mirror, src/main.py.                        *)
(*                                                                         *)
(* Two threads exist.  The libuvc capture thread invokes                   *)
(* py_frame_callback for every completed frame; the main thread runs the   *)
(* render loop of __main__.  They share the module-level Queue q only.     *)
(*                                                                         *)
(* Time.  The code never uses an absolute time, only the two differences   *)
(*     time.time() - start_time                  (line 426)                *)
(*     time.time() - last_ambient_temp_req_time  (line 283)                *)
(* The model keeps exactly these two differences, in whole clock quanta,   *)
(* as the variables time_passed and req_age.  Each is saturated at the     *)
(* first value from which the code's comparison can no longer change       *)
(* (time_passed < sleep_timeout_sec, req_age > ambient_temp_delay_sec).    *)
(* Assigning time.time() to start_time or last_ambient_temp_req_time sets  *)
(* the difference to 0; time elapsing adds to both.                        *)
(***************************************************************************)
EXTENDS Integers, Sequences, FiniteSets, TLC

\* ---------------------------------------------------------------- bounds
MaxFrames == 12   \* well-formed frames the driver delivers in one run
MaxStep == 1      \* most clock quanta one blocking call of a tick takes
FrameWidth == 2   \* negotiated stream format (frame_formats[0])
FrameHeight == 2

\* ------------------------------------------------------ program constants
BUF_SIZE == 10                 \* line 41
sleep_timeout_sec == 10        \* settings, line 36
ambient_temp_delay_sec == 5    \* settings, line 38

VARIABLES
    \* main thread
    pc,            \* "boot": before the initial poll (line 396); "loop": in while True
    time_passed,   \* time.time() - start_time, saturated at sleep_timeout_sec
    req_age,       \* time.time() - last_ambient_temp_req_time, saturated
    data_set,      \* PyInt(0) (line 397) or the dict {"temp", "hum"} of line 288
    is_gui_shown,  \* line 418
    packed,        \* TRUE iff the tk panels are packed (visible)
    \* what the last tick did (observations of the calls it made)
    branch,        \* "none", "ACTIVE" (line 427) or "PASSIVE" (line 464)
    motion,        \* what movement(motion_sensor) returned in the last tick
    sense_calls,   \* ambient_temp_sensor.sense() calls made by the last tick/boot
    kill_calls,    \* kill_gui calls made by the last tick
    show_calls,    \* show_gui calls made by the last tick
    hide_noop,     \* kill_gui was invoked while the panels were already hidden
    show_noop,     \* show_gui was invoked while the panels were already shown
    poll_at_limit, \* the last tick polled with line 283's difference equal to ambient_temp_delay_sec
    \* process lifecycle (lines 374-394, 423, 476-478)
    withs,         \* stack of the context managers entered, innermost last
    acquired,      \* hardware resources in the order they were acquired
    released,      \* hardware resources in the order they were released
    exc,           \* what ended normal operation: "none" or the exception raised
    reported,      \* the failure has been printed
    window,        \* get_main_window has run (line 404)
    lib_failed,    \* a libuvc call of the startup returned res < 0
    \* display_temperature (lines 83-88)
    val_k,         \* its argument val_k
    val,           \* val = ktof(val_k) in thousandths of a degree, NoVal before the call
    \* capture thread and queue
    q,             \* Queue(BUF_SIZE): sequence of enqueued arrays, oldest first
    cbpc,          \* py_frame_callback position: "idle", "enter", "full", "put"
    frame,         \* frame.contents handed to the running callback
    frame_mem,     \* payload now stored in the driver's frame memory
    frames,        \* number of well-formed frames delivered so far
    data,          \* local `data` of the running callback
    cb_result,     \* how the last callback ended
    held           \* array the consumer got from its last q.get

lifevars == <<withs, acquired, released, exc, reported, window, lib_failed>>
dispvars == <<val_k, val>>
loopvars == <<pc, time_passed, req_age, data_set, is_gui_shown, packed,
              branch, motion, sense_calls, kill_calls, show_calls, hide_noop, show_noop,
              poll_at_limit, lifevars, dispvars>>
drvvars == <<cbpc, frame, frame_mem, frames, data, cb_result>>
vars == <<loopvars, drvvars, q, held>>

\* ------------------------------------------------------------------ time
Sat(x, cap) == IF x > cap THEN cap ELSE x
IdleCap == sleep_timeout_sec
AgeCap == ambient_temp_delay_sec + 1
Steps == 0..MaxStep

\* --------------------------------------------------------- ambient sensor
\* tmpsensor.sense() returns (hum, temp); the model holds them in thousandths.
RawReadings == { [hum |-> 40125, temp |-> 21504], [hum |-> 38735, temp |-> 21496] }

\* round(x, 2): nearest hundredth, ties to even; x in thousandths, result in hundredths
Round2(x) ==
    LET lo == x \div 10
        r == x % 10
    IN  IF r < 5 THEN lo
        ELSE IF r > 5 THEN lo + 1
        ELSE IF lo % 2 = 0 THEN lo ELSE lo + 1

\* a Python int, as a value that can be compared with a dict
PyInt(n) == [int |-> n]

\* lines 285-288
MakeDataSet(raw) == [temp |-> Round2(raw.temp), hum |-> Round2(raw.hum)]

\* mutant of PollDue: the comparison of line 283 turned around
PollDueInverted(age) == age < ambient_temp_delay_sec

\* mutant of PollDue: the comparison of line 283 made non-strict
PollDueAtBoundary(age) == age >= ambient_temp_delay_sec

\* line 283
PollDue(age) == age > ambient_temp_delay_sec

\* What the sensor can answer to a call at line 283: a reading and the time the
\* blocking read takes when sense() is called, nothing when it is not.
SenseOutcomes(age) ==
    IF PollDue(age) THEN RawReadings \X Steps
    ELSE { <<CHOOSE r \in RawReadings : TRUE, 0>> }

\* get_ambient_temp_data, lines 282-291.  age is time.time() - last_req_time at
\* line 283, raw what sense() returns if called, d the time sense() takes.
\* Result: the returned pair and the number of sense() calls made.
get_ambient_temp_data(age, last_data_set, raw, d) ==
    IF PollDue(age)
    THEN [data_set |-> MakeDataSet(raw), req_age |-> 0, sensed |-> 1, took |-> d]
    ELSE [data_set |-> last_data_set, req_age |-> age, sensed |-> 0, took |-> 0]

\* ----------------------------------------------------------------- panels
\* kill_gui, lines 299-306: pack_forget on every panel
kill_gui(p) == FALSE
\* show_gui, lines 309-316: pack on every panel
show_gui(p) == TRUE

\* ------------------------------------------------------------------ queue
NoFrame == [width |-> 0, height |-> 0, data_bytes |-> 0, seq |-> 0]
NoArray == [seq |-> 0, view |-> FALSE]

\* mutant of QFull: off by one
QFullOffByOne(qq) == Len(qq) > BUF_SIZE

\* Queue.full()
QFull(qq) == Len(qq) >= BUF_SIZE

\* mutant of Malformed: only short frames are rejected
MalformedShortOnly(f) == f.data_bytes < 2 * f.width * f.height

\* line 59
Malformed(f) == f.data_bytes # 2 * f.width * f.height

\* lines 46-51: np.frombuffer(...).reshape(...)  # no copy.  The array is a view
\* on the driver's frame memory; seq names the frame it was made from.
FromBuffer(f) == [seq |-> f.seq, view |-> TRUE]

\* what reading the array yields now
Pixels(a) == IF a.view THEN frame_mem ELSE a.seq

DataBytes == { 2 * FrameWidth * FrameHeight - 2,
               2 * FrameWidth * FrameHeight,
               2 * FrameWidth * FrameHeight + 2 }

\* The context managers of lines 377, 378, 393, 394 and what each acquires.
AllWiths == <<"Uvc", "Device", "Stream", "Board", "MotionSense", "TempSense">>
AllResources == <<"ctx", "dev", "handle", "stream", "board", "motion", "temp">>

\* --------------------------------------------------------- temperatures
\* the largest raw sample, dtype np.uint16 (line 48)
MaxRaw == 65535

\* mutant of ktoc: the subtraction turned around
ktocInverted(v) == 27315 - v

\* ktoc, lines 73-74: (val - 27315) / 100.0 degrees Celsius.  The model holds
\* the result in hundredths of a degree, which is exact.
ktoc(v) == v - 27315

\* ktof, lines 69-70: 1.8 * ktoc(val) + 32.0 degrees Fahrenheit, held in
\* thousandths of a degree: 1000 * (1.8 * c / 100 + 32) = 18 * c + 32000 for c
\* hundredths of a degree Celsius.
ktof(v) == 18 * ktoc(v) + 32000

\* val before display_temperature has computed it
NoVal == -1000000

\* mutant of InitialAge: last_ambient_temp_req_time initialised to time.time()
InitialAgeNow == AgeCap - AgeCap

\* time.time() - last_ambient_temp_req_time at the first poll: line 396 sets
\* last_ambient_temp_req_time = 0, so the difference is the whole epoch time
InitialAge == AgeCap

\* What every run starts with, whatever has been acquired.
Started ==
    /\ time_passed = 0
    /\ req_age = InitialAge      \* last_ambient_temp_req_time = 0, line 396
    /\ data_set = PyInt(0)       \* line 397
    /\ is_gui_shown = TRUE
    /\ packed = FALSE
    /\ branch = "none"
    /\ motion = FALSE
    /\ sense_calls = 0
    /\ kill_calls = 0
    /\ show_calls = 0
    /\ hide_noop = FALSE
    /\ show_noop = FALSE
    /\ poll_at_limit = FALSE
    /\ released = <<>>
    /\ exc = "none"
    /\ reported = FALSE
    /\ window = FALSE
    /\ lib_failed = FALSE
    /\ val = NoVal
    /\ q = <<>>
    /\ cbpc = "idle"
    /\ frame = NoFrame
    /\ frame_mem = 0
    /\ frames = 0
    /\ data = NoArray
    /\ cb_result = "none"
    /\ held = NoArray

\* The state at line 396: every with block of lines 377-394 entered.
Init ==
    /\ pc = "boot"
    /\ withs = AllWiths
    /\ acquired = AllResources
    /\ val_k = 0
    /\ Started

\* display_temperature about to be called as lines 437-438 call it, with a raw
\* sample of the frame as val_k.
KtofInit ==
    /\ pc = "display_temperature"
    /\ withs = AllWiths
    /\ acquired = AllResources
    /\ val_k \in 0..MaxRaw
    /\ Started

\* The state at line 375: nothing acquired yet.
StartInit ==
    /\ pc = "uvc_init"
    /\ withs = <<>>
    /\ acquired = <<>>
    /\ val_k = 0
    /\ Started

\* ------------------------------------------------------------ main thread
\* lines 396-421: initial poll, window and panels built, start_time = time.time()
Boot ==
    /\ pc = "boot"
    /\ \E o \in SenseOutcomes(req_age), e \in Steps :
          LET r == get_ambient_temp_data(req_age, data_set, o[1], o[2])
          IN  /\ data_set' = r.data_set
              /\ sense_calls' = r.sensed
              /\ req_age' = Sat(r.req_age + e, AgeCap)
    /\ poll_at_limit' = (req_age = ambient_temp_delay_sec)
    /\ window' = TRUE            \* line 404
    /\ packed' = TRUE            \* get_heat_image_panel, get_data_panel, get_debug_panel pack
    /\ is_gui_shown' = TRUE      \* line 418
    /\ time_passed' = 0          \* line 421
    /\ pc' = "loop"
    /\ UNCHANGED <<branch, motion, kill_calls, show_calls, hide_noop, show_noop>>
    /\ UNCHANGED <<withs, acquired, released, exc, reported, lib_failed, dispvars>>
    /\ UNCHANGED <<drvvars, q, held>>

\* mutant of IsActive: the timeout taken one second early
IsActiveEarly(t) == t < sleep_timeout_sec - 1

\* line 427
IsActive(t) == t < sleep_timeout_sec

\* mutant of ActiveMotion: start_time reset on every ACTIVE tick
ActiveMotionAlways(m, idle) == idle - idle

\* lines 460-461
ActiveMotion(m, idle) == IF m THEN 0 ELSE idle

\* One iteration of the while loop that takes the branch of line 427.
\* o: the sensor's answer and the time it takes, d3: time until movement() has returned,
\* d4: the rest of the tick (window.update, time.sleep).
TickActive ==
    /\ pc = "loop"
    /\ IsActive(time_passed)
    /\ \E o \in SenseOutcomes(req_age), m \in BOOLEAN, d3 \in Steps, d4 \in Steps :
          LET r == get_ambient_temp_data(req_age, data_set, o[1], o[2])
              idle3 == Sat(time_passed + r.took + d3, IdleCap)
          IN  /\ data_set' = r.data_set
              /\ sense_calls' = r.sensed
              /\ req_age' = Sat(r.req_age + d3 + d4, AgeCap)
              /\ motion' = m
              /\ time_passed' = Sat(ActiveMotion(m, idle3) + d4, IdleCap)
    /\ branch' = "ACTIVE"
    /\ kill_calls' = 0
    /\ show_calls' = 0
    /\ hide_noop' = FALSE
    /\ show_noop' = FALSE
    /\ poll_at_limit' = (req_age = ambient_temp_delay_sec)
    /\ UNCHANGED <<pc, is_gui_shown, packed, lifevars, dispvars>>
    /\ UNCHANGED <<drvvars, q, held>>

\* mutant of PassiveMotion: line 469 missing, the timer is not reset
PassiveMotionNoReset(m, idle) == idle

\* lines 467-469
PassiveMotion(m, idle) == IF m THEN 0 ELSE idle

\* mutant of PassiveAmbient: the else branch polls like the ACTIVE branch does
PassiveAmbientPolls(age, last_data_set) ==
    LET r == get_ambient_temp_data(age, last_data_set, CHOOSE raw \in RawReadings : TRUE, 0)
    IN  [data_set |-> r.data_set, req_age |-> r.req_age, sensed |-> r.sensed,
         at_limit |-> (age = ambient_temp_delay_sec)]

\* What the else branch of lines 464-469 does with the ambient data: nothing, it
\* makes no call of get_ambient_temp_data.
PassiveAmbient(age, last_data_set) ==
    [data_set |-> last_data_set, req_age |-> age, sensed |-> 0, at_limit |-> FALSE]

\* One iteration of the while loop that takes the else branch of line 464.
TickPassive ==
    /\ pc = "loop"
    /\ ~IsActive(time_passed)
    /\ \E m \in BOOLEAN, d3 \in Steps, d4 \in Steps :
          LET killed == is_gui_shown                      \* line 465
              p1 == IF killed THEN kill_gui(packed) ELSE packed
              p2 == IF m THEN show_gui(p1) ELSE p1         \* lines 467-468
              idle3 == Sat(time_passed + d3, IdleCap)
          IN  /\ kill_calls' = (IF killed THEN 1 ELSE 0)
              /\ hide_noop' = (killed /\ ~packed)
              /\ show_calls' = (IF m THEN 1 ELSE 0)
              /\ show_noop' = (m /\ p1)
              /\ packed' = p2
              /\ motion' = m
              /\ time_passed' = Sat(PassiveMotion(m, idle3) + d4, IdleCap)
              /\ LET a == PassiveAmbient(req_age, data_set)
                 IN  /\ data_set' = a.data_set
                     /\ sense_calls' = a.sensed
                     /\ poll_at_limit' = a.at_limit
                     /\ req_age' = Sat(a.req_age + d3 + d4, AgeCap)
    /\ branch' = "PASSIVE"
    /\ UNCHANGED <<pc, is_gui_shown, lifevars, dispvars>>
    /\ UNCHANGED <<drvvars, q, held>>

\* --------------------------------------------------------- capture thread
\* The driver completes a frame in its frame memory and invokes the callback
\* registered at line 173.  A well-formed frame carries the next ordinal, which
\* also stands for its payload; a malformed one carries none.
DriverFrame ==
    /\ cbpc = "idle"
    /\ \E bytes \in DataBytes :
          LET f == [width |-> FrameWidth, height |-> FrameHeight,
                    data_bytes |-> bytes, seq |-> 0]
          IN  IF Malformed(f)
              THEN /\ frame' = f
                   /\ frame_mem' = 0
                   /\ frames' = frames
              ELSE /\ frames < MaxFrames
                   /\ frame' = [f EXCEPT !.seq = frames + 1]
                   /\ frame_mem' = frames + 1
                   /\ frames' = frames + 1
    /\ cbpc' = "enter"
    /\ UNCHANGED <<data, cb_result, q, held, loopvars>>

\* Return from the callback.
CbReturn(result) ==
    /\ cbpc' = "idle"
    /\ frame' = NoFrame
    /\ data' = NoArray
    /\ cb_result' = result

\* lines 46-60
CbEnter ==
    /\ cbpc = "enter"
    /\ IF Malformed(frame)
       THEN CbReturn("malformed")
       ELSE /\ data' = FromBuffer(frame)
            /\ cbpc' = "full"
            /\ UNCHANGED <<frame, cb_result>>
    /\ UNCHANGED <<frame_mem, frames, q, held, loopvars>>

\* mutant of CbCheckFull: a full queue evicts its oldest array to make room
CbCheckFullEvict ==
    /\ cbpc = "full"
    /\ q' = IF QFull(q) THEN Tail(q) ELSE q
    /\ cbpc' = "put"
    /\ UNCHANGED <<frame, data, cb_result, frame_mem, frames, held, loopvars>>

\* line 62
CbCheckFull ==
    /\ cbpc = "full"
    /\ IF QFull(q)
       THEN CbReturn("dropped")
       ELSE /\ cbpc' = "put"
            /\ UNCHANGED <<frame, data, cb_result>>
    /\ UNCHANGED <<frame_mem, frames, q, held, loopvars>>

\* mutant of QPut: a LifoQueue, the newest array comes out first
QPutLifo(qq, item) == <<item>> \o qq

\* Queue.put(item), block=True: waits while the queue is full
QPut(qq, item) == Append(qq, item)

\* line 63
CbPut ==
    /\ cbpc = "put"
    /\ Len(q) < BUF_SIZE
    /\ q' = QPut(q, data)
    /\ CbReturn("enqueued")
    /\ UNCHANGED <<frame_mem, frames, held, loopvars>>

\* ---------------------------------------------------------------- consumer
\* q.get(True, 500), line 430.  The call is commented out in the render loop of
\* this revision; QGet is the consumer the queue is written for and is part of
\* QueueSpec only.
QGet ==
    /\ q # <<>>
    /\ held' = Head(q)
    /\ q' = Tail(q)
    /\ UNCHANGED <<drvvars, loopvars>>

\* --------------------------------------------------- startup and shutdown
tickvars == <<time_passed, req_age, data_set, is_gui_shown, packed, branch, motion,
              sense_calls, kill_calls, show_calls, hide_noop, show_noop, poll_at_limit>>
elsewhere == <<dispvars, drvvars, q, held>>

\* what a libuvc call can return
LibResults == {-1, 0}

\* mutant of Failed: the result of the call is not looked at
FailedIgnored(res) == res < -1

\* lines 124, 134, 150, 174: if res < 0: raise ...
Failed(res) == res < 0

\* One libuvc call of the startup with its test of res: on failure the exception
\* error is raised, else mgr is the context manager now entered (none for
\* find_device) and resource what the call has acquired.
LibCall(here, next, error, mgr, resource) ==
    /\ pc = here
    /\ \E res \in LibResults :
          /\ lib_failed' = (lib_failed \/ res < 0)
          /\ IF Failed(res)
             THEN /\ exc' = error
                  /\ pc' = "unwind"
                  /\ UNCHANGED <<withs, acquired>>
             ELSE /\ pc' = next
                  /\ withs' = withs \o mgr
                  /\ acquired' = Append(acquired, resource)
                  /\ UNCHANGED exc
    /\ UNCHANGED <<released, reported, window, tickvars, elsewhere>>

\* Uvc.__enter__, lines 122-127: uvc_init
UvcEnter == LibCall("uvc_init", "find_device", "UvcInitError", <<"Uvc">>, "ctx")

\* Uvc.find_device, lines 132-137, called by Uvc.open (line 140) before Device exists
find_device == LibCall("find_device", "open", "DeviceNotFound", <<>>, "dev")

\* Device.__enter__, lines 148-153: uvc_open
DeviceEnter == LibCall("open", "formats", "DeviceNotAvailable", <<"Device">>, "handle")

\* Stream.__enter__, lines 172-177: uvc_start_streaming
StreamEnter == LibCall("stream", "sensors", "StreamError", <<"Stream">>, "stream")

\* lines 380-391: no Y16 frame format: print and exit(1), which raises SystemExit
FrameFormats ==
    /\ pc = "formats"
    /\ \E n \in 0..1 :
          IF n = 0
          THEN /\ reported' = TRUE
               /\ exc' = "SystemExit"
               /\ pc' = "unwind"
          ELSE /\ pc' = "stream"
               /\ UNCHANGED <<reported, exc>>
    /\ UNCHANGED <<withs, acquired, released, window, lib_failed, tickvars, elsewhere>>

\* What Board, MotionSense and TempSense hold between __enter__ and __exit__.
SensorManagers == <<"Board", "MotionSense", "TempSense">>
SensorResource(mgr) ==
    CASE mgr = "Board" -> "board"
      [] mgr = "MotionSense" -> "motion"
      [] mgr = "TempSense" -> "temp"

\* line 394: the three sensor context managers entered from left to right
SensorsEnter ==
    /\ pc = "sensors"
    /\ withs' = withs \o SensorManagers
    /\ acquired' = acquired \o [i \in 1..Len(SensorManagers) |-> SensorResource(SensorManagers[i])]
    /\ pc' = "boot"
    /\ UNCHANGED <<released, exc, reported, window, lib_failed, tickvars, elsewhere>>

\* the resources acquired and not released
Held == { acquired[i] : i \in 1..Len(acquired) } \ { released[i] : i \in 1..Len(released) }

\* What the __exit__ of a context manager releases, in order.
\* Stream.__exit__ (lines 179-180) uvc_stop_streaming; Device.__exit__ (lines
\* 155-156) uvc_unref_device, and no uvc_close of the handle; Uvc.__exit__ (lines
\* 129-130) uvc_exit, which shuts down a device handle still open and then the
\* context.
ExitReleases(mgr) ==
    CASE mgr = "Stream" -> <<"stream">>
      [] mgr = "Device" -> <<"dev">>
      [] mgr = "Uvc" -> IF "handle" \in Held THEN <<"handle", "ctx">> ELSE <<"ctx">>
      [] OTHER -> <<SensorResource(mgr)>>

\* The initial poll's sense() raises (line 398, outside the try of line 423).
BootSenseFails ==
    /\ pc = "boot"
    /\ PollDue(req_age)
    /\ sense_calls' = 1
    /\ exc' = "SensorError"
    /\ pc' = "unwind"
    /\ UNCHANGED <<time_passed, req_age, data_set, is_gui_shown, packed, branch, motion,
                   kill_calls, show_calls, hide_noop, show_noop, poll_at_limit>>
    /\ UNCHANGED <<withs, acquired, released, reported, window, lib_failed, elsewhere>>

\* mutant of AfterExcept: the try statement placed inside the while loop
AfterExceptRetry == "loop"

\* lines 476-478: the handler has printed; the try statement encloses the while
\* loop, so control leaves both
AfterExcept == "unwind"

\* tmpsensor.sense() raises inside the loop (line 284 called from line 448):
\* caught at line 476 and printed.
AmbientFails ==
    /\ pc = "loop"
    /\ IsActive(time_passed)
    /\ PollDue(req_age)
    /\ sense_calls' = 1
    /\ exc' = "SensorError"
    /\ reported' = TRUE
    /\ pc' = AfterExcept
    /\ UNCHANGED <<time_passed, req_age, data_set, is_gui_shown, packed, branch, motion,
                   kill_calls, show_calls, hide_noop, show_noop, poll_at_limit>>
    /\ UNCHANGED <<withs, acquired, released, window, lib_failed, elsewhere>>

\* motion_sensor.sense() raises inside the loop (line 321 called from line 460 or
\* 467), after the tick's poll or kill_gui: caught at line 476 and printed.
MotionFails ==
    /\ pc = "loop"
    /\ IF IsActive(time_passed)
       THEN /\ \E o \in SenseOutcomes(req_age) :
                  LET r == get_ambient_temp_data(req_age, data_set, o[1], o[2])
                  IN  /\ data_set' = r.data_set
                      /\ sense_calls' = r.sensed
                      /\ req_age' = r.req_age
            /\ UNCHANGED <<packed, kill_calls, hide_noop>>
       ELSE /\ packed' = (IF is_gui_shown THEN kill_gui(packed) ELSE packed)
            /\ kill_calls' = (IF is_gui_shown THEN 1 ELSE 0)
            /\ hide_noop' = (is_gui_shown /\ ~packed)
            /\ UNCHANGED <<data_set, sense_calls, req_age>>
    /\ exc' = "SensorError"
    /\ reported' = TRUE
    /\ pc' = AfterExcept
    /\ UNCHANGED <<time_passed, is_gui_shown, branch, motion, show_calls, show_noop, poll_at_limit>>
    /\ UNCHANGED <<withs, acquired, released, window, lib_failed, elsewhere>>

\* where a KeyboardInterrupt (Ctrl-C, SIGINT) can arrive
Running == {"uvc_init", "find_device", "open", "formats", "stream", "sensors", "boot", "loop"}

\* External termination: KeyboardInterrupt is no Exception, so line 476 does not
\* catch it and it leaves through the with blocks.
Interrupt ==
    /\ pc \in Running
    /\ exc' = "KeyboardInterrupt"
    /\ pc' = "unwind"
    /\ UNCHANGED <<withs, acquired, released, reported, window, lib_failed, tickvars, elsewhere>>

\* Leaving one with block: the __exit__ of the innermost context manager.
Unwind ==
    /\ pc = "unwind"
    /\ withs # <<>>
    /\ released' = released \o ExitReleases(withs[Len(withs)])
    /\ withs' = SubSeq(withs, 1, Len(withs) - 1)
    /\ UNCHANGED <<pc, acquired, exc, reported, window, lib_failed, tickvars, elsewhere>>

\* The interpreter ends; an exception nobody caught is printed as a traceback.
\* A SensorError with no window built yet is the initial poll's (line 398), which
\* no handler encloses.
Uncaught == {"UvcInitError", "DeviceNotFound", "DeviceNotAvailable", "StreamError",
             "KeyboardInterrupt"}
ProcessExit ==
    /\ pc = "unwind"
    /\ withs = <<>>
    /\ pc' = "ended"
    /\ reported' = (reported \/ exc \in Uncaught \/ (exc = "SensorError" /\ ~window))
    /\ UNCHANGED <<withs, acquired, released, exc, window, lib_failed, tickvars, elsewhere>>


\* --------------------------------------------------------- specifications
Tick == TickActive \/ TickPassive
Driver == DriverFrame \/ CbEnter \/ CbCheckFull \/ CbPut

\* The program as written: render loop and capture thread.
Next ==
    \/ Boot
    \/ TickActive
    \/ TickPassive
    \/ DriverFrame
    \/ CbEnter
    \/ CbCheckFull
    \/ CbPut

Spec == Init /\ [][Next]_vars

\* The loop keeps iterating and the driver keeps delivering frames.
FairSpec == Spec /\ WF_vars(Boot) /\ WF_vars(Tick) /\ WF_vars(Driver)

\* The queue between the capture thread and a consumer.
QueueNext ==
    \/ DriverFrame
    \/ CbEnter
    \/ CbCheckFull
    \/ CbPut
    \/ QGet

QueueSpec == Init /\ [][QueueNext]_vars

\* The render loop alone (it shares no variable with the capture thread).
LoopNext ==
    \/ Boot
    \/ TickActive
    \/ TickPassive

LoopSpec == Init /\ [][LoopNext]_vars

\* The main thread from process start to process end: startup, render loop,
\* sensor failures, Ctrl-C, and the with blocks left on the way out.
LifeNext ==
    \/ UvcEnter
    \/ find_device
    \/ DeviceEnter
    \/ FrameFormats
    \/ StreamEnter
    \/ SensorsEnter
    \/ Boot
    \/ BootSenseFails
    \/ TickActive
    \/ TickPassive
    \/ AmbientFails
    \/ MotionFails
    \/ Interrupt
    \/ Unwind
    \/ ProcessExit

LifeSpec == StartInit /\ [][LifeNext]_vars

\* A tick during which the clock is seen to move on: every tick sleeps at line
\* 474, so time.time() - start_time cannot stay the same tick after tick.
TickElapses == Tick /\ time_passed' > time_passed

\* LifeSpec with a loop that keeps iterating and a clock that keeps running.
\* Nothing forces a failure or an interrupt to happen.
LifeFairSpec == LifeSpec /\ WF_vars(Tick) /\ WF_vars(TickElapses)

\* line 84: val = ktof(val_k)
display_temperature ==
    /\ pc = "display_temperature"
    /\ val = NoVal
    /\ val' = ktof(val_k)
    /\ UNCHANGED <<pc, val_k, lifevars, tickvars, drvvars, q, held>>

\* The conversion alone, over every raw sample.
KtofSpec == KtofInit /\ [][display_temperature]_vars

\* ------------------------------------------------------------------ claims
Min(a, b) == IF a < b THEN a ELSE b

\* C1: once time_passed >= sleep_timeout_sec the loop enters PASSIVE and invokes
\* kill_gui exactly once for that entry: the PASSIVE tick that follows an ACTIVE
\* one (or a motion) calls it once, every later PASSIVE tick without motion calls
\* it not at all, and it is never invoked while the panels are already hidden.
C1_HideOnce ==
    [][TickPassive =>
        /\ kill_calls' = (IF branch = "PASSIVE" /\ ~motion THEN 0 ELSE 1)
        /\ ~hide_noop']_vars

\* C2: a PASSIVE tick on which motion is detected invokes show_gui exactly once,
\* with the panels hidden at that moment, leaves them shown, and resets the idle
\* timer: at the end of the tick time_passed holds only what elapsed after the
\* reset, so the next tick takes the ACTIVE branch.
C2_ShowOnceAndReset ==
    [][TickPassive /\ motion' =>
        /\ show_calls' = 1
        /\ ~show_noop'
        /\ packed'
        /\ time_passed' <= MaxStep
        /\ time_passed' < sleep_timeout_sec]_vars

C2_Witness ==
    /\ branch = "PASSIVE"
    /\ motion
    /\ show_calls = 1
    /\ packed
    /\ time_passed > 0

\* C3: is_gui_shown equals the shown/hidden status of the panels at every tick
\* boundary, and is false at the end of every tick that ends in PASSIVE.
C3_FlagTracksVisibility ==
    pc = "loop" =>
        /\ is_gui_shown = packed
        /\ (branch = "PASSIVE" /\ ~motion => ~is_gui_shown)

\* C4: q.put is only executed when a free slot exists, under every interleaving
\* of the q.full() check, the put and the consumer's pops; a frame that finds the
\* queue at capacity is dropped and the queue is left as it was.
C4_NeverBlocks ==
    /\ [](cbpc = "put" => Len(q) < BUF_SIZE)
    /\ [][CbCheckFull /\ Len(q) = BUF_SIZE =>
            q' = q /\ cbpc' = "idle" /\ cb_result' = "dropped"]_vars

C4_Witness ==
    /\ cb_result = "dropped"
    /\ cbpc = "idle"
    /\ Len(q) = BUF_SIZE
    /\ held # NoArray

\* C5: as long as nothing has been popped, the queue holds exactly the arrays of
\* the first min(frames, BUF_SIZE) well-formed frames in arrival order, every
\* later one having been dropped; the first pop returns the oldest of them; the
\* queue never holds more than BUF_SIZE arrays.
C5_DropNewest ==
    /\ [](Len(q) <= BUF_SIZE)
    /\ [](held = NoArray /\ cbpc = "idle" =>
            q = [i \in 1..Min(frames, BUF_SIZE) |-> [seq |-> i, view |-> TRUE]])
    /\ [][QGet /\ held = NoArray => held'.seq = 1 /\ q' = Tail(q)]_vars

C5_Witness ==
    /\ frames = BUF_SIZE + 2
    /\ cbpc = "idle"
    /\ cb_result = "dropped"
    /\ Len(q) = BUF_SIZE - 1
    /\ held.seq = 1

\* C6: the arrays delivered to the consumer are those of frames produced, in
\* strictly increasing frame order: none out of order, none twice.
C6_FifoSubsequence ==
    [][QGet => held'.seq > held.seq /\ held'.seq \in 1..frames]_vars

C6_Witness ==
    /\ held.seq >= 2
    /\ q # <<>>
    /\ Head(q).seq > held.seq + 1

\* C7: the contents of an array in the queue, or held by the consumer, stay those
\* of the frame it was made from, whatever the driver writes to its frame memory
\* afterwards.
C7_SampleImmutable ==
    /\ \A i \in 1..Len(q) : Pixels(q[i]) = q[i].seq
    /\ (held # NoArray => Pixels(held) = held.seq)

\* C8: a callback on a frame whose data_bytes differs from 2 * width * height
\* returns without changing the queue, at every occupancy.
C8_MalformedDropped ==
    [][CbEnter /\ frame.data_bytes # 2 * frame.width * frame.height =>
        q' = q /\ cbpc' = "idle" /\ cb_result' = "malformed"]_vars

C8_Witness ==
    /\ cb_result = "malformed"
    /\ cbpc = "idle"
    /\ Len(q) = BUF_SIZE

\* C9: a tick pops at most one array, and while ACTIVE ticks keep occurring a
\* full queue does not stay full: an enqueued array is eventually popped.
C9_EventuallyPopped ==
    /\ [][Tick => Len(q') >= Len(q) - 1]_vars
    /\ ([]<>(branch = "ACTIVE") => ((Len(q) = BUF_SIZE) ~> (Len(q) < BUF_SIZE)))

\* C10: a poll made within ambient_temp_delay_sec of the last physical read
\* (recorded at line 289 when sense() has returned) calls sense() not at all and
\* returns the cached reading; a poll made after the interval has elapsed calls
\* sense() exactly once and returns the reading it gave.
C10_OneReadPerInterval ==
    [][TickActive \/ Boot =>
        IF req_age <= ambient_temp_delay_sec
        THEN sense_calls' = 0 /\ data_set' = data_set
        ELSE sense_calls' = 1 /\ \E raw \in RawReadings : data_set' = MakeDataSet(raw)]_vars

C10_Witness ==
    /\ branch = "ACTIVE"
    /\ sense_calls = 0
    /\ req_age > 0
    /\ req_age <= ambient_temp_delay_sec
    /\ data_set \in { MakeDataSet(raw) : raw \in RawReadings }

\* C11: the interval test of the ambient poll is strict.  A poll made when
\* now - lastPollTime is below or exactly equal to ambient_temp_delay_sec reads
\* no sensor and returns the cached reading with lastPollTime unchanged (the age
\* of the reading only grows); only a strictly greater difference reads the
\* sensor, and then lastPollTime moves to the time of the read.
C11_StrictInterval ==
    [][TickActive \/ Boot =>
        /\ req_age <= ambient_temp_delay_sec =>
              /\ sense_calls' = 0
              /\ data_set' = data_set
              /\ req_age' >= req_age
        /\ req_age > ambient_temp_delay_sec =>
              /\ sense_calls' = 1
              /\ data_set' \in { MakeDataSet(raw) : raw \in RawReadings }
              /\ req_age' <= 2 * MaxStep]_vars

\* a poll was made at exactly the boundary and answered from the cache
C11_Witness ==
    /\ poll_at_limit
    /\ branch = "ACTIVE"
    /\ sense_calls = 0
    /\ req_age >= ambient_temp_delay_sec

\* C12: while the display is PASSIVE no ambient poll is made.  A tick of the
\* else branch reads no sensor and leaves the reading and lastPollTime as they
\* were, however long ago the last poll was.
C12_NoPollWhilePassive ==
    [][TickPassive =>
        /\ sense_calls' = 0
        /\ ~poll_at_limit'
        /\ data_set' = data_set
        /\ req_age' >= req_age]_vars

\* a PASSIVE tick has run although the reading was older than the poll interval
C12_Witness ==
    /\ branch = "PASSIVE"
    /\ ~motion
    /\ sense_calls = 0
    /\ req_age > ambient_temp_delay_sec
    /\ time_passed = sleep_timeout_sec

\* C13: PASSIVE is entered only on a tick where now - idleStart has reached
\* sleep_timeout_sec.  On every tick where it is below, the ACTIVE branch runs,
\* kill_gui is not called and the panels are and stay shown; idleStart moves only
\* on a tick whose motion sample is true.
C13_PassiveOnlyAfterTimeout ==
    /\ [](pc = "loop" /\ time_passed < sleep_timeout_sec => packed)
    /\ [][Tick =>
            IF time_passed < sleep_timeout_sec
            THEN /\ branch' = "ACTIVE"
                 /\ kill_calls' = 0
                 /\ packed /\ packed'
                 /\ (~motion' => time_passed' >= time_passed)
            ELSE branch' = "PASSIVE"]_vars

\* an ACTIVE tick with no motion has brought the idle time up to the timeout,
\* panels still shown
C13_Witness ==
    /\ branch = "ACTIVE"
    /\ ~motion
    /\ kill_calls = 0
    /\ packed
    /\ time_passed = sleep_timeout_sec

\* C18: motion sampled on a tick that starts with the panels shown keeps the
\* display ACTIVE: kill_gui is not called on that tick, the panels stay shown and
\* idleStart is reset, also on the tick where now - idleStart has just reached
\* sleep_timeout_sec.
C18_MotionNeverHides ==
    [][Tick /\ packed /\ motion' =>
        /\ kill_calls' = 0
        /\ packed'
        /\ time_passed' <= MaxStep]_vars

\* C20: the initial poll always reads the sensor, so from the moment the data
\* panel is built the current reading is one {temp, hum} dict, never the
\* placeholder 0, and every later poll leaves one such dict in its place.
C20_InitialPollReads ==
    /\ [](window => data_set \in { MakeDataSet(raw) : raw \in RawReadings })
    /\ [][Boot => sense_calls' = 1 /\ data_set = PyInt(0) /\ data_set' # PyInt(0)]_vars
    /\ [][TickActive => data_set' \in { MakeDataSet(raw) : raw \in RawReadings }]_vars

\* boot has read the sensor and built the window; no tick has run yet
C20_Witness ==
    /\ pc = "loop"
    /\ branch = "none"
    /\ window
    /\ sense_calls = 1
    /\ data_set \in { MakeDataSet(raw) : raw \in RawReadings }

\* C14: a failure of the ambient or the motion sensor read inside the render loop
\* is fatal.  It ends the loop: from the failure on no tick runs and no sensor is
\* read again; and it is reported at once, before the process shuts down, never
\* swallowed with the loop going on.
C14_SensorFailureFatal ==
    /\ [](exc = "SensorError" => pc \in {"unwind", "ended"})
    /\ [][exc = "SensorError" => UNCHANGED tickvars]_vars
    /\ [][AmbientFails \/ MotionFails => reported' /\ exc' = "SensorError"]_vars
    /\ [](pc = "ended" /\ exc = "SensorError" => reported)

\* a sensor read failed after some ticks, and the process has ended
C14_Witness ==
    /\ exc = "SensorError"
    /\ branch # "none"
    /\ window
    /\ reported
    /\ pc = "ended"

Reverse(sq) == [i \in 1..Len(sq) |-> sq[Len(sq) + 1 - i]]

\* C15: on every exit path every hardware resource acquired up to then is
\* released, in strict reverse order of acquisition, and none is held when the
\* process ends.
C15_ReleasedInReverse ==
    pc = "ended" =>
        /\ Held = {}
        /\ released = Reverse(acquired)

\* C16: when uvc_init, uvc_find_device, uvc_open or uvc_start_streaming fails at
\* startup the process leaves without entering the render loop: no tick runs, no
\* sensor is acquired or read, no window is created.
C16_StartupFailureExits ==
    lib_failed =>
        /\ pc \in {"unwind", "ended"}
        /\ exc \in {"UvcInitError", "DeviceNotFound", "DeviceNotAvailable", "StreamError"}
        /\ branch = "none"
        /\ sense_calls = 0
        /\ data_set = PyInt(0)
        /\ ~window
        /\ \A i \in 1..Len(acquired) : acquired[i] \notin {"board", "motion", "temp"}

\* the last startup step, the stream start, failed and the process has ended
C16_Witness ==
    /\ lib_failed
    /\ exc = "StreamError"
    /\ acquired = <<"ctx", "dev", "handle">>
    /\ pc = "ended"

\* C17: for every raw value in 0..65535 ktof gives 1.8 * ((raw - 27315) / 100.0)
\* + 32.0, in exact scaled integers 1000 * fahrenheit = 18 * (raw - 27315) +
\* 32000; it gives a value for every input, also below 27315, and it never
\* decreases when raw grows.
C17_KtofLinear ==
    /\ val = NoVal => ENABLED display_temperature
    /\ val # NoVal =>
          /\ val = 18 * (val_k - 27315) + 32000
          /\ val_k < MaxRaw => val <= ktof(val_k + 1)
          /\ val_k > 0 => ktof(val_k - 1) <= val

\* a sample below 0 degrees Celsius has been converted
C17_Witness ==
    /\ val_k = 25000
    /\ val = -9670

\* C19: if from some tick on the motion sensor never reads true, and the loop
\* keeps running with time advancing, the display eventually is PASSIVE with the
\* panels hidden and stays so on every later tick.  The loop has no terminal
\* state: while it runs another tick is always possible.
C19_EventuallyPassive ==
    /\ [](pc = "loop" => ENABLED Tick)
    /\ (<>[](pc = "loop" /\ ~motion)
           => <>[](branch = "PASSIVE" /\ ~packed /\ ~IsActive(time_passed)))

\* the loop is running PASSIVE with the panels hidden and no motion
C19_Witness ==
    /\ pc = "loop"
    /\ window
    /\ branch = "PASSIVE"
    /\ ~motion
    /\ ~packed
    /\ kill_calls = 1

====
